---- MODULE Spec2Model ----
(***************************************************************************)
(* Model of zk.py: one run of main() (argument parsing, pre-flight checks, *)
(* the two sequential fetch phases of analyze_accounts, compare_states,    *)
(* the text report, the optional JSON report and the exit code), and a     *)
(* second specification that applies compare_states to arbitrary maps.     *)
(*                                                                         *)
(* Strings that the code inspects (URLs, addresses) are tuples of          *)
(* characters.  Addresses are shortened to two hex letters; the "0x"       *)
(* prefix, common to all of them, is left out.  Python dicts are functions *)
(* whose domain is the key set.                                            *)
(***************************************************************************)
EXTENDS Integers, Sequences, FiniteSets, TLC

VARIABLES pc, args, addrs, src, i, results, bal, rpc,
          state_a, state_b, diffs, report, json_out, exit_code, trace

vars == <<pc, args, addrs, src, i, results, bal, rpc,
          state_a, state_b, diffs, report, json_out, exit_code, trace>>

\* Longest --address list the model tries.
MaxAddrs == 2

-----------------------------------------------------------------------------
(* Inputs and environment                                                  *)

HttpPrefix == <<"h","t","t","p",":","/","/">>
HttpsPrefix == <<"h","t","t","p","s",":","/","/">>

\* Values --rpc-a / --rpc-b may take: one accepted, one rejected each.
RpcAChoices == { <<"h","t","t","p",":","/","/","a">>,
                 <<"f","t","p",":","/","/","x">> }
RpcBChoices == { <<"h","t","t","p","s",":","/","/","b">>,
                 <<"h","t","t","p">> }

\* Values of --address: the all-lowercase "ab" (checksummed form "aB"), the
\* already checksummed "Cd", and "Ab" (mixed case with a wrong checksum).
RawAddrs == { <<"a","b">>, <<"C","d">>, <<"A","b">> }

AddressLists == UNION { [1..n -> RawAddrs] : n \in 1..MaxAddrs }

\* What the nodes may answer.
Balances == {90, 100}
Nonces == {5}
Msgs == {"timeout"}

Sources == {"A", "B"}

-----------------------------------------------------------------------------
(* Library functions the code calls                                        *)

\* str.startswith
StartsWith(s, p) == Len(s) >= Len(p) /\ SubSeq(s, 1, Len(p)) = p

\* Seeded fault: the scheme test reduced to a test for a non-empty URL.
ValidRpcUrl_AnyScheme(u) == Len(u) > 0

\* str(rpc).startswith(("http://", "https://"))
ValidRpcUrl(u) == StartsWith(u, HttpPrefix) \/ StartsWith(u, HttpsPrefix)

LowerOf == ("a" :> "a") @@ ("b" :> "b") @@ ("c" :> "c") @@ ("d" :> "d") @@
           ("A" :> "a") @@ ("B" :> "b") @@ ("C" :> "c") @@ ("D" :> "d")
UpperOf == ("a" :> "A") @@ ("b" :> "B") @@ ("c" :> "C") @@ ("d" :> "D") @@
           ("A" :> "A") @@ ("B" :> "B") @@ ("C" :> "C") @@ ("D" :> "D")

Lower(s) == [k \in 1..Len(s) |-> LowerOf[s[k]]]
Upper(s) == [k \in 1..Len(s) |-> UpperOf[s[k]]]

\* The hash-derived capitalisation of each lowercase address.
ChecksumTable == (<<"a","b">> :> <<"a","B">>) @@ (<<"c","d">> :> <<"C","d">>)

\* Web3.to_checksum_address
to_checksum_address(s) == ChecksumTable[Lower(s)]

\* Web3.is_address: hex of the right length, and all-lowercase,
\* all-uppercase, or mixed case with a valid checksum.
is_address(s) ==
    /\ Lower(s) \in DOMAIN ChecksumTable
    /\ \/ s = Lower(s)
       \/ s = Upper(s)
       \/ s = to_checksum_address(s)

\* Code points, for Python's string ordering.
Code == ("A" :> 65) @@ ("B" :> 66) @@ ("C" :> 67) @@ ("D" :> 68) @@
        ("a" :> 97) @@ ("b" :> 98) @@ ("c" :> 99) @@ ("d" :> 100)

\* s < t on Python strings: lexicographic by code point.
StrLess(s, t) ==
    \E n \in 1..(Len(s) + 1) :
        /\ \A m \in 1..(n - 1) : m <= Len(t) /\ s[m] = t[m]
        /\ \/ n > Len(s) /\ n <= Len(t)
           \/ n <= Len(s) /\ n <= Len(t) /\ Code[s[n]] < Code[t[n]]

RECURSIVE sorted_Descending(_)
\* Seeded fault: the keys in descending order.
sorted_Descending(S) ==
    IF S = {} THEN <<>>
    ELSE LET m == CHOOSE x \in S : \A y \in S \ {x} : StrLess(y, x)
         IN  <<m>> \o sorted_Descending(S \ {m})

RECURSIVE sorted(_)
\* sorted(set): ascending sequence of the set's elements
sorted(S) ==
    IF S = {} THEN <<>>
    ELSE LET m == CHOOSE x \in S : \A y \in S \ {x} : StrLess(x, y)
         IN  <<m>> \o sorted(S \ {m})

-----------------------------------------------------------------------------
(* Dicts                                                                   *)

EmptyDict == [k \in {} |-> 0]

\* {"balance_wei": bal, "tx_count": txs}
OkRecord(b, n) == [balance_wei |-> b, tx_count |-> n]
\* {"error": str(e)}
ErrRecord(m) == [error |-> m]

\* Seeded fault: only the keys both dicts have are compared.
DictEq_CommonKeys(x, y) == \A k \in (DOMAIN x) \cap (DOMAIN y) : x[k] = y[k]

\* dict == dict : same keys, same value under every key
DictEq(x, y) == DOMAIN x = DOMAIN y /\ \A k \in DOMAIN x : x[k] = y[k]

\* d.get(key, {})
Get(d, key) == IF key \in DOMAIN d THEN d[key] ELSE EmptyDict

\* Seeded fault: setdefault, an existing entry is kept.
Put_KeepFirst(d, key, value) ==
    [k \in (DOMAIN d) \cup {key} |-> IF k \in DOMAIN d THEN d[k] ELSE value]

\* d[key] = value
Put(d, key, value) ==
    [k \in (DOMAIN d) \cup {key} |-> IF k = key THEN value ELSE d[k]]

\* a.get("balance_wei", "ERR") and a.get("tx_count", "ERR")
Field(r, name) == IF name \in DOMAIN r THEN r[name] ELSE "ERR"

IsOk(r) == DOMAIN r = {"balance_wei", "tx_count"}
IsErr(r) == DOMAIN r = {"error"}

-----------------------------------------------------------------------------
(* compare_states                                                          *)

RECURSIVE compare_loop(_, _, _, _)
compare_loop(keys, k, a, b) ==
    IF k > Len(keys) THEN <<>>
    ELSE LET addr == keys[k]
             va == Get(a, addr)
             vb == Get(b, addr)
         IN  (IF ~DictEq(va, vb) THEN <<addr>> ELSE <<>>)
                 \o compare_loop(keys, k + 1, a, b)

compare_states(a, b) ==
    compare_loop(sorted((DOMAIN a) \cup (DOMAIN b)), 1, a, b)

-----------------------------------------------------------------------------
(* State                                                                   *)

NoArgs == [rpc_a |-> <<>>, rpc_b |-> <<>>, address |-> <<>>, json |-> FALSE]
Idle == [st |-> "idle", val |-> 0, msg |-> ""]

\* trace: what the run has done so far, in order: what it printed and every
\* exchange with a node.  An event is <<kind, source, number>>, the number
\* being the position in addrs, a count, or 1/0 for a probe's answer.
Event(kind, s, k) == <<kind, s, k>>
Log(e) == trace' = Append(trace, e)

Init ==
    /\ pc = "parse"
    /\ args = NoArgs
    /\ addrs = <<>>
    /\ src = "-"
    /\ i = 0
    /\ results = EmptyDict
    /\ bal = 0
    /\ rpc = Idle
    /\ state_a = EmptyDict
    /\ state_b = EmptyDict
    /\ diffs = <<>>
    /\ report = <<>>
    /\ json_out = <<>>
    /\ exit_code = -1
    /\ trace = <<>>

\* sys.exit(code)
Exit(code) == pc' = "done" /\ exit_code' = code

-----------------------------------------------------------------------------
(* main: argument parsing and pre-flight                                   *)

\* parse_args(): argparse ends the process itself, with status 2 on a usage
\* error (--rpc-b or --address missing, --timeout not an integer) and with
\* status 0 after printing the help text; otherwise main gets the namespace.
ParseArgsUsageError ==
    /\ pc = "parse"
    /\ Log(Event("usage", "-", 0))
    /\ Exit(2)
    /\ UNCHANGED <<args, addrs, src, i, results, bal, rpc, state_a, state_b,
                   diffs, report, json_out>>

ParseArgsHelp ==
    /\ pc = "parse"
    /\ Log(Event("help", "-", 0))
    /\ Exit(0)
    /\ UNCHANGED <<args, addrs, src, i, results, bal, rpc, state_a, state_b,
                   diffs, report, json_out>>

ParseArgs ==
    /\ pc = "parse"
    /\ \E a \in RpcAChoices, b \in RpcBChoices, l \in AddressLists, j \in BOOLEAN :
           args' = [rpc_a |-> a, rpc_b |-> b, address |-> l, json |-> j]
    /\ pc' = "check_urls"
    /\ UNCHANGED <<addrs, src, i, results, bal, rpc, state_a, state_b, diffs,
                   report, json_out, exit_code, trace>>

\* for rpc in [args.rpc_a, args.rpc_b]: the first bad URL ends the run
CheckUrls ==
    /\ pc = "check_urls"
    /\ IF ~ValidRpcUrl(args.rpc_a) \/ ~ValidRpcUrl(args.rpc_b)
       THEN /\ Log(Event("invalid_rpc",
                         IF ~ValidRpcUrl(args.rpc_a) THEN "A" ELSE "B", 0))
            /\ Exit(1)
       ELSE /\ pc' = "check_addrs"
            /\ UNCHANGED <<exit_code, trace>>
    /\ UNCHANGED <<args, addrs, src, i, results, bal, rpc, state_a, state_b,
                   diffs, report, json_out>>

\* Index of the first invalid entry of the --address list, 0 if none.
FirstInvalid(l) ==
    IF \A k \in 1..Len(l) : is_address(l[k]) THEN 0
    ELSE CHOOSE k \in 1..Len(l) :
             ~is_address(l[k]) /\ \A m \in 1..(k - 1) : is_address(l[m])

\* addrs after the loop: every entry checksummed, in input order
Normalised(l) == [k \in 1..Len(l) |-> to_checksum_address(l[k])]

CheckAddrs ==
    /\ pc = "check_addrs"
    /\ IF FirstInvalid(args.address) # 0
       THEN /\ Log(Event("invalid_addr", "-", FirstInvalid(args.address)))
            /\ Exit(1)
            /\ UNCHANGED addrs
       ELSE /\ addrs' = Normalised(args.address)
            /\ pc' = "probe_a"
            /\ UNCHANGED <<exit_code, trace>>
    /\ UNCHANGED <<args, src, i, results, bal, rpc, state_a, state_b, diffs,
                   report, json_out>>

\* not w3a.is_connected() or not w3b.is_connected(): A is probed first and
\* B only when A answered.
ProbeA ==
    /\ pc = "probe_a"
    /\ \E connected \in BOOLEAN :
           /\ pc' = IF connected THEN "probe_b" ELSE "connect_failed"
           /\ Log(Event("probe", "A", IF connected THEN 1 ELSE 0))
    /\ UNCHANGED <<args, addrs, src, i, results, bal, rpc, state_a, state_b,
                   diffs, report, json_out, exit_code>>

ProbeB ==
    /\ pc = "probe_b"
    /\ \E connected \in BOOLEAN :
           /\ pc' = IF connected THEN "header" ELSE "connect_failed"
           /\ Log(Event("probe", "B", IF connected THEN 1 ELSE 0))
    /\ UNCHANGED <<args, addrs, src, i, results, bal, rpc, state_a, state_b,
                   diffs, report, json_out, exit_code>>

ConnectFailed ==
    /\ pc = "connect_failed"
    /\ Log(Event("connect_failed", "-", 0))
    /\ Exit(1)
    /\ UNCHANGED <<args, addrs, src, i, results, bal, rpc, state_a, state_b,
                   diffs, report, json_out>>

\* The banner, then analyze_accounts(w3a, addrs, args.block_a) is entered.
Header ==
    /\ pc = "header"
    /\ Log(Event("header", "-", Len(addrs)))
    /\ pc' = "loop"
    /\ src' = "A"
    /\ i' = 1
    /\ results' = EmptyDict
    /\ UNCHANGED <<args, addrs, bal, rpc, state_a, state_b, diffs, report,
                   json_out, exit_code>>

-----------------------------------------------------------------------------
(* analyze_accounts, run for source A and then for source B                *)

Request(method) == [st |-> method, val |-> 0, msg |-> ""]
Answer(v) == [st |-> "ok", val |-> v, msg |-> ""]
Failure(m) == [st |-> "raised", val |-> 0, msg |-> m]

\* Top of the for loop, the list not yet exhausted: print the progress
\* notice and enter the try block.
LoopNext ==
    /\ pc = "loop"
    /\ i <= Len(addrs)
    /\ Log(Event("progress", src, i))
    /\ pc' = "try"
    /\ UNCHANGED <<args, addrs, src, i, results, bal, rpc, state_a, state_b,
                   diffs, report, json_out, exit_code>>

\* fetch_balance(w3, addr, block): the request goes out
BalanceCall ==
    /\ pc = "try"
    /\ rpc' = Request("get_balance")
    /\ Log(Event("bal_call", src, i))
    /\ pc' = "bal_wait"
    /\ UNCHANGED <<args, addrs, src, i, results, bal, state_a, state_b, diffs,
                   report, json_out, exit_code>>

\* The node (or the transport) answers the pending request: a value, or a
\* failure that the client raises as an exception.
NodeAnswers ==
    /\ rpc.st \in {"get_balance", "get_transaction_count"}
    /\ \/ \E v \in (IF rpc.st = "get_balance" THEN Balances ELSE Nonces) :
              rpc' = Answer(v)
       \/ \E m \in Msgs : rpc' = Failure(m)
    /\ UNCHANGED <<pc, args, addrs, src, i, results, bal, state_a, state_b,
                   diffs, report, json_out, exit_code, trace>>

\* bal = fetch_balance(...)
BalanceReturn ==
    /\ pc = "bal_wait"
    /\ rpc.st = "ok"
    /\ bal' = rpc.val
    /\ rpc' = Idle
    /\ Log(Event("bal_ret", src, i))
    /\ pc' = "tx"
    /\ UNCHANGED <<args, addrs, src, i, results, state_a, state_b, diffs,
                   report, json_out, exit_code>>

\* fetch_tx_count(w3, addr, block): the request goes out
TxCountCall ==
    /\ pc = "tx"
    /\ rpc' = Request("get_transaction_count")
    /\ Log(Event("tx_call", src, i))
    /\ pc' = "tx_wait"
    /\ UNCHANGED <<args, addrs, src, i, results, bal, state_a, state_b, diffs,
                   report, json_out, exit_code>>

\* txs = fetch_tx_count(...); results[addr] = {"balance_wei": bal, "tx_count": txs}
\* (bal is not read again before it is reassigned, and is cleared here)
TxCountReturn ==
    /\ pc = "tx_wait"
    /\ rpc.st = "ok"
    /\ results' = Put(results, addrs[i], OkRecord(bal, rpc.val))
    /\ rpc' = Idle
    /\ bal' = 0
    /\ trace' = trace \o <<Event("tx_ret", src, i), Event("store_ok", src, i)>>
    /\ i' = i + 1
    /\ pc' = "loop"
    /\ UNCHANGED <<args, addrs, src, state_a, state_b, diffs, report,
                   json_out, exit_code>>

\* Seeded fault: after a failed balance lookup the error is recorded and the
\* transaction-count lookup is attempted all the same.
Except_GoOn ==
    /\ pc \in {"bal_wait", "tx_wait"}
    /\ rpc.st = "raised"
    /\ results' = [k \in (DOMAIN results) \cup {addrs[i]} |->
                       IF k = addrs[i] THEN [error |-> rpc.msg] ELSE results[k]]
    /\ rpc' = Idle
    /\ bal' = 0
    /\ trace' = trace \o
           <<Event(IF pc = "bal_wait" THEN "bal_raise" ELSE "tx_raise", src, i),
             Event("store_err", src, i)>>
    /\ IF pc = "bal_wait" THEN i' = i /\ pc' = "tx"
                          ELSE i' = i + 1 /\ pc' = "loop"
    /\ UNCHANGED <<args, addrs, src, state_a, state_b, diffs, report,
                   json_out, exit_code>>

\* except Exception as e: results[addr] = {"error": str(e)}
\* taken from whichever of the two calls raised
Except ==
    /\ pc \in {"bal_wait", "tx_wait"}
    /\ rpc.st = "raised"
    /\ results' = Put(results, addrs[i], ErrRecord(rpc.msg))
    /\ rpc' = Idle
    /\ bal' = 0
    /\ trace' = trace \o
           <<Event(IF pc = "bal_wait" THEN "bal_raise" ELSE "tx_raise", src, i),
             Event("store_err", src, i)>>
    /\ i' = i + 1
    /\ pc' = "loop"
    /\ UNCHANGED <<args, addrs, src, state_a, state_b, diffs, report,
                   json_out, exit_code>>

\* Seeded fault: the second fetch is left out.
ReturnA_SkipB ==
    /\ pc = "loop"
    /\ i > Len(addrs)
    /\ src = "A"
    /\ state_a' = results
    /\ results' = EmptyDict
    /\ src' = "-"
    /\ i' = 0
    /\ pc' = "compare"
    /\ Log(Event("return", "A", 0))
    /\ UNCHANGED <<args, addrs, bal, rpc, state_b, diffs, report, json_out,
                   exit_code>>

\* return results, into state_a; analyze_accounts(w3b, ...) is entered
ReturnA ==
    /\ pc = "loop"
    /\ i > Len(addrs)
    /\ src = "A"
    /\ state_a' = results
    /\ results' = EmptyDict
    /\ src' = "B"
    /\ i' = 1
    /\ Log(Event("return", "A", 0))
    /\ UNCHANGED <<pc, args, addrs, bal, rpc, state_b, diffs, report,
                   json_out, exit_code>>

\* return results, into state_b
ReturnB ==
    /\ pc = "loop"
    /\ i > Len(addrs)
    /\ src = "B"
    /\ state_b' = results
    /\ results' = EmptyDict
    /\ src' = "-"
    /\ i' = 0
    /\ pc' = "compare"
    /\ Log(Event("return", "B", 0))
    /\ UNCHANGED <<args, addrs, bal, rpc, state_a, diffs, report, json_out,
                   exit_code>>

-----------------------------------------------------------------------------
(* main: comparison, reports, exit                                         *)

\* diffs = compare_states(state_a, state_b)
Compare ==
    /\ pc = "compare"
    /\ diffs' = compare_states(state_a, state_b)
    /\ Log(Event("compare", "-", 0))
    /\ pc' = "report"
    /\ UNCHANGED <<args, addrs, src, i, results, bal, rpc, state_a, state_b,
                   report, json_out, exit_code>>

\* One line of the results section.
ReportLine(addr) ==
    LET a == Get(state_a, addr)
        b == Get(state_b, addr)
    IN  [addr  |-> addr,
         match |-> IF DictEq(a, b) THEN "MATCH" ELSE "DIFF",
         bal_a |-> Field(a, "balance_wei"),
         bal_b |-> Field(b, "balance_wei"),
         txa   |-> Field(a, "tx_count"),
         txb   |-> Field(b, "tx_count")]

\* Seeded fault: the lines follow the sorted, de-duplicated addresses.
ReportLines_Sorted ==
    LET keys == sorted({ addrs[k] : k \in DOMAIN addrs })
    IN  [k \in 1..Len(keys) |->
            [addr  |-> keys[k],
             match |-> IF DictEq(Get(state_a, keys[k]), Get(state_b, keys[k]))
                       THEN "MATCH" ELSE "DIFF",
             bal_a |-> Field(Get(state_a, keys[k]), "balance_wei"),
             bal_b |-> Field(Get(state_b, keys[k]), "balance_wei"),
             txa   |-> Field(Get(state_a, keys[k]), "tx_count"),
             txb   |-> Field(Get(state_b, keys[k]), "tx_count")]]

\* for addr in addrs: print the line
ReportLines == [k \in 1..Len(addrs) |-> ReportLine(addrs[k])]

\* The results section, then the summary line.
PrintReport ==
    /\ pc = "report"
    /\ report' = ReportLines
    /\ trace' = trace \o [k \in 1..Len(addrs) |-> Event("line", "-", k)]
                      \o <<Event(IF diffs = <<>> THEN "summary_match"
                                                 ELSE "summary_diff",
                                 "-", Len(diffs))>>
    /\ pc' = "json"
    /\ UNCHANGED <<args, addrs, src, i, results, bal, rpc, state_a, state_b,
                   diffs, json_out, exit_code>>

\* Seeded fault: ok says that differences were found.
JsonDocument_OkInverted ==
    [rpc_a |-> args.rpc_a, rpc_b |-> args.rpc_b, addresses |-> addrs,
     state_a |-> state_a, state_b |-> state_b, diffs |-> diffs,
     ok |-> (Len(diffs) > 0)]

\* The document json.dumps prints (time stamp, elapsed time and the block
\* references, which nothing reads back, are left out).
JsonDocument ==
    [rpc_a |-> args.rpc_a, rpc_b |-> args.rpc_b, addresses |-> addrs,
     state_a |-> state_a, state_b |-> state_b, diffs |-> diffs,
     ok |-> (Len(diffs) = 0)]

\* if args.json: print(json.dumps(out)); then sys.exit(0 if not diffs else 2)
EmitJson ==
    /\ pc = "json"
    /\ args.json
    /\ json_out' = Append(json_out, JsonDocument)
    /\ Log(Event("json", "-", 0))
    /\ pc' = "exit"
    /\ UNCHANGED <<args, addrs, src, i, results, bal, rpc, state_a, state_b,
                   diffs, report, exit_code>>

\* Seeded fault: differences reported with the status of a fatal error.
FinalStatus_One(d) == IF d = <<>> THEN 0 ELSE 1

\* Exit status of a run that got as far as the comparison.
FinalStatus(d) == IF d = <<>> THEN 0 ELSE 2

FinalExit ==
    /\ \/ pc = "exit"
       \/ pc = "json" /\ ~args.json
    /\ Exit(FinalStatus(diffs))
    /\ Log(Event("exit", "-", 0))
    /\ UNCHANGED <<args, addrs, src, i, results, bal, rpc, state_a, state_b,
                   diffs, report, json_out>>

Next ==
    \/ ParseArgsUsageError \/ ParseArgsHelp \/ ParseArgs
    \/ CheckUrls \/ CheckAddrs \/ ProbeA \/ ProbeB \/ ConnectFailed \/ Header
    \/ LoopNext \/ BalanceCall \/ NodeAnswers \/ BalanceReturn
    \/ TxCountCall \/ TxCountReturn \/ Except \/ ReturnA \/ ReturnB
    \/ Compare \/ PrintReport \/ EmitJson \/ FinalExit

Spec == Init /\ [][Next]_vars

-----------------------------------------------------------------------------
(* compare_states applied to arbitrary pairs of maps                       *)

CmpKeys == { <<"a","B">>, <<"C","d">>, <<"c","D">> }
CmpRecs == { OkRecord(100, 5), OkRecord(90, 5), OkRecord(100, 6),
             ErrRecord("timeout"), ErrRecord("refused") }
CmpMaps == UNION { [K -> CmpRecs] : K \in SUBSET CmpKeys }

InitCmp ==
    /\ pc = "cmp_call"
    /\ state_a \in CmpMaps
    /\ state_b \in CmpMaps
    /\ args = NoArgs
    /\ addrs = <<>>
    /\ src = "-"
    /\ i = 0
    /\ results = EmptyDict
    /\ bal = 0
    /\ rpc = Idle
    /\ diffs = <<>>
    /\ report = <<>>
    /\ json_out = <<>>
    /\ exit_code = -1
    /\ trace = <<>>

CompareStatesCall ==
    /\ pc = "cmp_call"
    /\ diffs' = compare_states(state_a, state_b)
    /\ pc' = "cmp_done"
    /\ UNCHANGED <<args, addrs, src, i, results, bal, rpc, state_a, state_b,
                   report, json_out, exit_code, trace>>

NextCmp == CompareStatesCall

SpecCmp == InitCmp /\ [][NextCmp]_vars

-----------------------------------------------------------------------------
(* Vocabulary of the properties                                            *)

Range(q) == { q[n] : n \in DOMAIN q }
Happened(kind, s, k) == \E n \in DOMAIN trace : trace[n] = <<kind, s, k>>
Where(kinds, ss) ==
    { n \in DOMAIN trace : trace[n][1] \in kinds /\ trace[n][2] \in ss }

\* argparse accepted the command line
Parsed == pc # "parse" /\ ~Happened("usage", "-", 0) /\ ~Happened("help", "-", 0)

BadScheme(u) == ~StartsWith(u, HttpPrefix) /\ ~StartsWith(u, HttpsPrefix)
BadInput ==
    \/ BadScheme(args.rpc_a)
    \/ BadScheme(args.rpc_b)
    \/ \E k \in DOMAIN args.address : ~is_address(args.address[k])
ProbeFailed == Happened("probe", "A", 0) \/ Happened("probe", "B", 0)
PreflightFailed == Parsed /\ (BadInput \/ ProbeFailed)
PreflightPassed ==
    Parsed /\ ~BadInput /\ Happened("probe", "A", 1) /\ Happened("probe", "B", 1)

NetworkKinds == {"probe", "bal_call", "tx_call"}
LookupKinds == {"bal_call", "tx_call"}

-----------------------------------------------------------------------------
(* C1: exit codes                                                          *)

\* C1 as stated: in every finished run the exit code is 1 iff a pre-flight
\* check failed, otherwise 0 iff the diff list is empty and 2 iff it is not,
\* and no other code occurs.
C1_ExitCodeAsStated ==
    pc = "done" =>
        /\ exit_code \in {0, 1, 2}
        /\ (exit_code = 1) <=> PreflightFailed
        /\ ~PreflightFailed =>
               /\ (exit_code = 0) <=> (PreflightPassed /\ diffs = <<>>)
               /\ (exit_code = 2) <=> (PreflightPassed /\ diffs # <<>>)

\* C1 amended: the statement holds for every run whose command line argparse
\* accepts; a run it rejects ends with 2 and a help request with 0, both
\* before any check or comparison.
C1_ExitCode ==
    pc = "done" =>
        /\ exit_code \in {0, 1, 2}
        /\ Happened("usage", "-", 0) => exit_code = 2 /\ Len(trace) = 1
        /\ Happened("help", "-", 0) => exit_code = 0 /\ Len(trace) = 1
        /\ Parsed =>
               /\ (exit_code = 1) <=> PreflightFailed
               /\ (exit_code = 0) <=> (PreflightPassed /\ diffs = <<>>)
               /\ (exit_code = 2) <=> (PreflightPassed /\ diffs # <<>>)
               /\ PreflightPassed => diffs = compare_states(state_a, state_b)

C1_Witness ==
    pc = "done" /\ Parsed /\ PreflightPassed /\ exit_code = 2 /\ Len(diffs) = 2

-----------------------------------------------------------------------------
(* C2: pre-flight precedes the network                                     *)

\* C2: with a bad RPC URL scheme or an invalid address the run never performs
\* a network operation (no probe, no lookup) and ends with 1; once a probe
\* has failed the run never issues a lookup and ends with 1.
C2_PreflightBeforeNetwork ==
    /\ BadInput => Where(NetworkKinds, Sources) = {}
    /\ ProbeFailed => Where(LookupKinds, Sources) = {}
    /\ Happened("probe", "A", 0) => ~Happened("probe", "B", 0) /\ ~Happened("probe", "B", 1)
    /\ (Parsed /\ (BadInput \/ ProbeFailed) /\ pc = "done") => exit_code = 1
    /\ Where(LookupKinds, Sources) # {} => PreflightPassed

C2_Witness ==
    pc = "done" /\ Happened("probe", "A", 1) /\ Happened("probe", "B", 0)

-----------------------------------------------------------------------------
(* C3: per-address failure isolation in analyze_accounts                   *)

StateOf(s) == IF s = "A" THEN state_a ELSE state_b
Fetched(s) == Happened("return", s, 0)
Failed(s, k) == Happened("bal_raise", s, k) \/ Happened("tx_raise", s, k)
LastIndex(addr) ==
    CHOOSE k \in DOMAIN addrs :
        addrs[k] = addr /\ \A m \in DOMAIN addrs : addrs[m] = addr => m <= k
FetchPcs == {"loop", "try", "bal_wait", "tx", "tx_wait"}

\* C3 as stated: the returned map has exactly the input addresses as keys,
\* every list entry had its lookup issued, an address one of whose lookups
\* failed maps to an error record and an address none of whose lookups failed
\* maps to a balance/nonce record.
C3_IsolationAsStated ==
    \A s \in Sources :
        Fetched(s) =>
            /\ DOMAIN StateOf(s) = Range(addrs)
            /\ \A k \in DOMAIN addrs : Happened("bal_call", s, k)
            /\ \A k \in DOMAIN addrs :
                   Failed(s, k) => IsErr(StateOf(s)[addrs[k]])
            /\ \A a \in Range(addrs) :
                   (\A k \in DOMAIN addrs : addrs[k] = a => ~Failed(s, k))
                       => IsOk(StateOf(s)[a])

C3_ReturnedMap ==
    \A s \in Sources :
        Fetched(s) =>
            /\ DOMAIN StateOf(s) = Range(addrs)
            /\ \A k \in DOMAIN addrs : Happened("bal_call", s, k)
            /\ \A a \in Range(addrs) :
                   /\ Failed(s, LastIndex(a)) <=> IsErr(StateOf(s)[a])
                   /\ ~Failed(s, LastIndex(a)) <=> IsOk(StateOf(s)[a])

C3_NeverStuck == pc \in FetchPcs => ENABLED Next

C3_StoresWhatWasAnswered ==
    /\ (pc = "bal_wait" /\ rpc.st = "ok" /\ rpc'.st = "idle") => bal' = rpc.val
    /\ (pc = "tx_wait" /\ rpc.st = "ok" /\ rpc'.st = "idle") =>
           /\ DOMAIN results' = DOMAIN results \cup {addrs[i]}
           /\ DictEq(results'[addrs[i]], [balance_wei |-> bal, tx_count |-> rpc.val])
           /\ \A a \in DOMAIN results \ {addrs[i]} : DictEq(results'[a], results[a])
           /\ i' = i + 1 /\ pc' = "loop"
    /\ (rpc.st = "raised" /\ rpc'.st = "idle") =>
           /\ DOMAIN results' = DOMAIN results \cup {addrs[i]}
           /\ DictEq(results'[addrs[i]], [error |-> rpc.msg])
           /\ \A a \in DOMAIN results \ {addrs[i]} : DictEq(results'[a], results[a])
           /\ i' = i + 1 /\ pc' = "loop"

\* C3 amended: the fetch never gets stuck and returns a map whose key set is
\* the set of input addresses; every list entry has its lookup issued,
\* whatever failed before it; each entry stores, under its address, the error
\* record carrying the failure's message if one of its two lookups failed and
\* otherwise the record of the balance and nonce the source answered; an
\* address listed more than once maps to the record of its LAST entry.
C3_Isolation ==
    /\ [](C3_ReturnedMap /\ C3_NeverStuck)
    /\ [][C3_StoresWhatWasAnswered]_vars

\* both phases done, over a repeated address whose first lookup failed and
\* whose second succeeded
C3_Witness ==
    /\ Fetched("B")
    /\ Len(addrs) = 2 /\ addrs[1] = addrs[2]
    /\ Failed("A", 1) /\ ~Failed("A", 2)
    /\ Failed("B", 2)

-----------------------------------------------------------------------------
(* C4, C5: error records in the comparison                                 *)

Compared == Happened("compare", "-", 0)
OneOkOneErr(a) ==
    \/ IsOk(state_a[a]) /\ IsErr(state_b[a])
    \/ IsErr(state_a[a]) /\ IsOk(state_b[a])

\* C4: after the comparison, every address for which both sources recorded
\* an error is in the diff list, whatever the two messages are.
C4_TwoErrorsAlwaysDiffer ==
    Compared =>
        \A a \in Range(addrs) :
            (IsErr(state_a[a]) /\ IsErr(state_b[a])) => a \in Range(diffs)

\* C5: after the comparison, every address with a balance/nonce record from
\* one source and an error record from the other is in the diff list, and a
\* run with such an address ends with exit code 2.
C5_OkAgainstErr ==
    Compared =>
        /\ \A a \in Range(addrs) : OneOkOneErr(a) => a \in Range(diffs)
        /\ (pc = "done" /\ \E a \in Range(addrs) : OneOkOneErr(a)) => exit_code = 2

C5_Witness ==
    /\ pc = "done" /\ Compared
    /\ \E a \in Range(addrs) : IsErr(state_a[a]) /\ IsOk(state_b[a])
    /\ \E a \in Range(addrs) : IsOk(state_a[a]) /\ IsErr(state_b[a])

-----------------------------------------------------------------------------
(* C6: what compare_states returns                                         *)

\* The two records of an address differ, as the claim words it.
RecordsDiffer(a, b, k) ==
    \/ k \notin DOMAIN a
    \/ k \notin DOMAIN b
    \/ IsOk(a[k]) /\ IsErr(b[k])
    \/ IsErr(a[k]) /\ IsOk(b[k])
    \/ /\ IsOk(a[k]) /\ IsOk(b[k])
       /\ (a[k].balance_wei # b[k].balance_wei \/ a[k].tx_count # b[k].tx_count)
    \/ IsErr(a[k]) /\ IsErr(b[k]) /\ a[k].error # b[k].error

\* C6: compare_states(a, b) lists exactly the addresses of either map whose
\* records differ, each once, in ascending order of the address string.
C6_CompareStates ==
    pc = "cmp_done" =>
        /\ \A n \in DOMAIN diffs : diffs[n] \in (DOMAIN state_a) \cup (DOMAIN state_b)
        /\ \A n, m \in DOMAIN diffs : n < m => StrLess(diffs[n], diffs[m])
        /\ \A k \in (DOMAIN state_a) \cup (DOMAIN state_b) :
               k \in Range(diffs) <=> RecordsDiffer(state_a, state_b, k)

\* three addresses: one only in a, one with different nonces, one equal
C6_Witness ==
    /\ pc = "cmp_done"
    /\ Len(diffs) = 2
    /\ \E k \in DOMAIN state_a : k \notin DOMAIN state_b
    /\ \E k \in (DOMAIN state_a) \cap (DOMAIN state_b) :
           /\ IsOk(state_a[k]) /\ IsOk(state_b[k])
           /\ state_a[k].balance_wei = state_b[k].balance_wei
           /\ state_a[k].tx_count # state_b[k].tx_count
    /\ \E k \in (DOMAIN state_a) \cap (DOMAIN state_b) : k \notin Range(diffs)

-----------------------------------------------------------------------------
(* C7: the text report                                                     *)

Reported == Where({"summary_match", "summary_diff"}, {"-"}) # {}
LineEvents == Where({"line"}, {"-"})

\* C7: the results section has one line per entry of the input list, the
\* k-th line for the k-th input address (normalised), marked DIFF iff that
\* address is in the diff list and MATCH otherwise.
C7_TextReport ==
    Reported =>
        /\ Len(report) = Len(args.address)
        /\ Cardinality(LineEvents) = Len(args.address)
        /\ \A n, m \in LineEvents : n < m <=> trace[n][3] < trace[m][3]
        /\ \A k \in DOMAIN report :
               /\ report[k].addr = to_checksum_address(args.address[k])
               /\ report[k].match \in {"MATCH", "DIFF"}
               /\ report[k].match = "DIFF" <=> report[k].addr \in Range(diffs)

\* input order differs from the sorted order, and one of the two differs
C7_Witness ==
    /\ Reported
    /\ Len(addrs) = 2 /\ StrLess(addrs[2], addrs[1])
    /\ report[1].match = "MATCH" /\ report[2].match = "DIFF"

-----------------------------------------------------------------------------
(* C8: the JSON report                                                     *)

JsonEvents == Where({"json"}, {"-"})

\* C8: a finished run has printed the JSON document iff --json was given and
\* pre-flight passed; it is printed once, after every line of the text report
\* and the summary line and before the exit; its diffs field is the list
\* compare_states returned and its ok field says that list is empty, which
\* is the case exactly when the exit code is 0.
C8_JsonReport ==
    /\ Len(json_out) = Cardinality(JsonEvents)
    /\ Len(json_out) <= 1
    /\ pc = "done" => (Len(json_out) = 1 <=> (args.json /\ PreflightPassed))
    /\ \A j \in JsonEvents :
           /\ \A n \in LineEvents : n < j
           /\ Cardinality(LineEvents) = Len(addrs)
           /\ \E n \in Where({"summary_match", "summary_diff"}, {"-"}) : n < j
           /\ \A n \in Where({"exit"}, {"-"}) : j < n
           /\ json_out[1].diffs = compare_states(state_a, state_b)
           /\ json_out[1].diffs = diffs
           /\ json_out[1].ok <=> (json_out[1].diffs = <<>>)
           /\ pc = "done" => (json_out[1].ok <=> exit_code = 0)

C8_Witness ==
    /\ pc = "done" /\ Len(json_out) = 1
    /\ ~json_out[1].ok /\ Len(json_out[1].diffs) = 1 /\ Len(addrs) = 2

-----------------------------------------------------------------------------
(* C9: the order of the lookups                                            *)

FetchKinds == {"progress", "bal_call", "bal_ret", "bal_raise",
               "tx_call", "tx_ret", "tx_raise", "store_ok", "store_err"}
AnswerOf(kind) == IF kind = "bal_call" THEN {"bal_ret", "bal_raise"}
                                       ELSE {"tx_ret", "tx_raise"}

\* What must hold of the m-th event of a trace t, given the events before it.
InOrder(t, m) ==
    LET kind == t[m][1]
        s == t[m][2]
        k == t[m][3]
        before == 1..(m - 1)
    IN  /\ (kind \in FetchKinds /\ s = "A") =>
               \A n \in before : ~(t[n][1] \in FetchKinds /\ t[n][2] = "B")
        /\ kind \in FetchKinds =>
               /\ \A n \in before :
                      (t[n][1] \in FetchKinds /\ t[n][2] = s) => t[n][3] <= k
               /\ \A n \in before : t[n][1] # "compare"
               /\ \E n \in before : t[n] = <<"header", "-", Len(addrs)>>
        /\ kind \in LookupKinds =>
               /\ \A n \in before : t[n] # t[m]
               /\ \A n \in before : t[n][1] \in LookupKinds =>
                      /\ n + 1 < m
                      /\ t[n + 1][1] \in AnswerOf(t[n][1])
                      /\ t[n + 1][2] = t[n][2] /\ t[n + 1][3] = t[n][3]
        /\ kind = "bal_call" =>
               /\ t[m - 1] = <<"progress", s, k>>
               /\ \A n \in before : t[n] # <<"tx_call", s, k>>
        /\ kind = "tx_call" => t[m - 1] = <<"bal_ret", s, k>>
        /\ kind = "compare" =>
               \A ss \in Sources : \A kk \in DOMAIN addrs :
                   \E n \in before :
                       t[n] \in {<<"store_ok", ss, kk>>, <<"store_err", ss, kk>>}

\* C9: whenever the run does something, it is in order: nothing of the fetch
\* against A comes after anything of the fetch against B; within a phase the
\* entries come in input order; a lookup is issued only when every earlier
\* lookup has been answered, and the answer is the next thing that happens,
\* so at most one is in flight; the balance lookup of an entry directly
\* follows its progress notice and precedes its nonce lookup, which directly
\* follows the balance's return; the comparison comes after both phases
\* have handled every entry, and no lookup comes after it.
C9_Sequential ==
    /\ [](rpc.st # "idle" <=>
              (trace # <<>> /\ trace[Len(trace)][1] \in LookupKinds))
    /\ [][ /\ Len(trace') >= Len(trace)
           /\ SubSeq(trace', 1, Len(trace)) = trace
           /\ \A m \in (Len(trace) + 1)..Len(trace') : InOrder(trace', m) ]_vars

C9_Witness ==
    /\ Compared /\ Len(addrs) = 2
    /\ Happened("tx_raise", "A", 1) /\ Happened("bal_raise", "B", 2)

-----------------------------------------------------------------------------
(* C10: the two lookups of one entry                                       *)

Count(kind, s, k) ==
    Cardinality({ n \in DOMAIN trace : trace[n] = <<kind, s, k>> })
Handled(s, k) == Happened("store_ok", s, k) \/ Happened("store_err", s, k)

\* C10 as stated: for every entry the fetch has handled, both lookups were
\* attempted, and a failure of either left exactly one error record.
C10_BothAttemptedAsStated ==
    \A s \in Sources : \A k \in DOMAIN addrs :
        Handled(s, k) =>
            /\ Happened("bal_call", s, k)
            /\ Happened("tx_call", s, k)
            /\ Failed(s, k) => Count("store_err", s, k) = 1

\* C10 amended: each time the fetch has handled an entry, the balance lookup
\* was attempted; the transaction-count lookup was attempted if and only if
\* the balance lookup succeeded; a failure of either one left exactly one
\* error record for the entry's address and no balance/nonce record, and an
\* entry without failure left exactly one balance/nonce record.
C10_LookupsPerEntry ==
    (pc = "loop" /\ i > 1) =>
        LET s == src
            k == i - 1
        IN  /\ Handled(s, k)
            /\ Count("bal_call", s, k) = 1
            /\ Count("tx_call", s, k) = Count("bal_ret", s, k)
            /\ Count("tx_call", s, k) = 1 <=> ~Happened("bal_raise", s, k)
            /\ Failed(s, k) =>
                   /\ Count("store_err", s, k) = 1 /\ Count("store_ok", s, k) = 0
                   /\ IsErr(results[addrs[k]])
            /\ ~Failed(s, k) =>
                   /\ Count("store_ok", s, k) = 1 /\ Count("store_err", s, k) = 0
                   /\ IsOk(results[addrs[k]])

C10_Witness ==
    /\ Fetched("B") /\ Len(addrs) = 2
    /\ Happened("bal_raise", "A", 1) /\ ~Happened("tx_call", "A", 1)
    /\ Happened("tx_raise", "B", 1)

====
